---- MODULE Spec2Model ----
(***************************************************************************)
(* Model of pkg/sentry/socket/netfilter/netfilter.go: the codec between    *)
(* netstack's iptables tables and the ipt_replace/ipt_get_entries binary   *)
(* layout, and the three socket-option handlers built on it.               *)
(*                                                                         *)
(* Byte buffers are records [len, mem]: len is the number of bytes, mem    *)
(* maps the offsets of the non-zero bytes to their values (every other     *)
(* byte below len is zero).  A Go slice optVal[a:b] of a buffer is the     *)
(* pair (start offset, length) into that buffer.                           *)
(***************************************************************************)
EXTENDS Integers, Sequences, FiniteSets, TLC

VARIABLES tables, installed, req, call, rd, wr

vars == <<tables, installed, req, call, rd, wr>>

(***************************************************************************)
(* Wire layout: sizes and field offsets of the linux ABI structs.          *)
(***************************************************************************)
SizeOfIPTReplace == 96
SizeOfIPTEntry == 112
SizeOfIPTGetEntries == 40
SizeOfXTEntryMatch == 32
SizeOfXTEntryTarget == 32
SizeOfXTStandardTarget == 40
SizeOfXTErrorTarget == 64
SizeOfXTUDP == 10
XT_TABLE_MAXNAMELEN == 32
XT_EXTENSION_MAXNAMELEN == 29
XT_FUNCTION_MAXNAMELEN == 30
NF_INET_NUMHOOKS == 5
NF_DROP == 0
NF_ACCEPT == 1
NF_QUEUE == 3
NF_REPEAT == 4
NF_RETURN == (-NF_REPEAT) - 1

\* struct ipt_replace: name[32], valid_hooks, num_entries, size,
\* hook_entry[5], underflow[5], num_counters, counters.
OffReplaceNumEntries == 36
OffReplaceSize == 40
OffReplaceHookEntry == 44
OffReplaceUnderflow == 64
\* struct ipt_entry: ipt_ip (84 bytes: 80 bytes of addresses and interfaces,
\* proto, flags, invflags), nfcache, target_offset, next_offset, comefrom,
\* counters.
OffIPProtocol == 80
OffIPFlags == 82
OffIPInverseFlags == 83
OffEntryTargetOffset == 88
OffEntryNextOffset == 90
\* struct xt_entry_match / xt_entry_target: size, name[29], revision.
OffXTName == 2

U16 == 65536
MaxInt32 == 2147483647

\* Names are byte strings.
TablenameFilter == <<102, 105, 108, 116, 101, 114>>
TablenameNat == <<110, 97, 116>>
TablenameMangle == <<109, 97, 110, 103, 108, 101>>
errorTargetName == <<69, 82, 82, 79, 82>>
matcherNameUDP == <<117, 100, 112>>

\* iptables.Hook
Prerouting == 0
Input == 1
Forward == 2
Output == 3
Postrouting == 4
HookUnset == -1
Hooks == 0 .. (NF_INET_NUMHOOKS - 1)

(***************************************************************************)
(* Byte buffers.                                                           *)
(***************************************************************************)
NoBytes == [len |-> 0, mem |-> <<>>]

Byte(b, i) == IF i \in DOMAIN b.mem THEN b.mem[i] ELSE 0

GetU16(b, off) == Byte(b, off) + 256 * Byte(b, off + 1)

\* A 32-bit word is held as the integer with the same bits in two's
\* complement, whether the code reads it as int32 or as uint32: the values
\* of a uint32 from 2^31 on are the negative ones.  U32Add and U32Less are
\* the addition (modulo 2^32) and the order of uint32 on that form.
GetI32(b, off) ==
    LET lo == GetU16(b, off)
        hi == GetU16(b, off + 2)
    IN  IF hi >= U16 \div 2 THEN (hi - U16) * U16 + lo ELSE hi * U16 + lo

GetU32(b, off) == GetI32(b, off)

U32Add(a, n) ==
    IF a >= 0 /\ a > MaxInt32 - n THEN (a - MaxInt32 - 1) + (n - MaxInt32 - 1) ELSE a + n

U32Less(a, b) == IF (a < 0) = (b < 0) THEN a < b ELSE b < 0

\* The String() of a fixed-size name field: the bytes before the first NUL.
CString(b, off, n) ==
    LET nul == {k \in 0 .. (n - 1) : Byte(b, off + k) = 0}
        end == IF nul = {} THEN n ELSE CHOOSE k \in nul : \A j \in nul : k <= j
    IN  [k \in 1 .. end |-> Byte(b, off + k - 1)]

\* TRUE iff every byte of [off, off+n) is zero.
AllZero(b, off, n) == \A i \in DOMAIN b.mem : (off <= i /\ i < off + n) => b.mem[i] = 0

PutU8(off, v) == IF v = 0 THEN <<>> ELSE (off :> v)

PutU16(off, v) == PutU8(off, v % 256) @@ PutU8(off + 1, (v \div 256) % 256)

PutI32(off, v) ==
    LET lo == v % U16
        hi == (((v - lo) \div U16) + U16) % U16
    IN  PutU16(off, lo) @@ PutU16(off + 2, hi)

PutU32(off, v) == PutI32(off, v)

PutString(off, s) == [i \in {off + k - 1 : k \in DOMAIN s} |-> s[i - off + 1]]

Struct(n, fields) == [len |-> n, mem |-> fields]

\* append(a, b...)
Cat(a, b) ==
    [len |-> a.len + b.len,
     mem |-> a.mem @@ [i \in {j + a.len : j \in DOMAIN b.mem} |-> b.mem[i - a.len]]]

\* b[:n] (n <= b.len).
Prefix(b, n) == [len |-> n, mem |-> [i \in {j \in DOMAIN b.mem : j < n} |-> b.mem[i]]]

(***************************************************************************)
(* Verdict codec.                                                          *)
(***************************************************************************)
\* A slip in the decoder's switch: the QUEUE wire value taken for ACCEPT.
translateToStandardVerdict_QueueAccepted(val) ==
    IF val = (-NF_ACCEPT) - 1 \/ val = (-NF_QUEUE) - 1 THEN [verdict |-> "Accept", err |-> ""]
    ELSE IF val = (-NF_DROP) - 1 THEN [verdict |-> "Drop", err |-> ""]
    ELSE IF val = NF_RETURN THEN [verdict |-> "Invalid", err |-> "unsupported"]
    ELSE [verdict |-> "Invalid", err |-> "unknown"]

translateFromStandardVerdict(verdict) ==
    CASE verdict = "Accept" -> [val |-> (-NF_ACCEPT) - 1, panic |-> FALSE]
      [] verdict = "Drop" -> [val |-> (-NF_DROP) - 1, panic |-> FALSE]
      [] verdict = "Queue" -> [val |-> (-NF_QUEUE) - 1, panic |-> FALSE]
      [] verdict = "Return" -> [val |-> NF_RETURN, panic |-> FALSE]
      [] OTHER -> [val |-> 0, panic |-> TRUE]

translateToStandardVerdict(val) ==
    IF val = (-NF_ACCEPT) - 1 THEN [verdict |-> "Accept", err |-> ""]
    ELSE IF val = (-NF_DROP) - 1 THEN [verdict |-> "Drop", err |-> ""]
    ELSE IF val = (-NF_QUEUE) - 1 THEN [verdict |-> "Invalid", err |-> "unsupported"]
    ELSE IF val = NF_RETURN THEN [verdict |-> "Invalid", err |-> "unsupported"]
    ELSE [verdict |-> "Invalid", err |-> "unknown"]

(***************************************************************************)
(* Targets and matchers.                                                   *)
(***************************************************************************)
marshalStandardTarget(verdict) ==
    Struct(SizeOfXTStandardTarget,
           PutU16(0, SizeOfXTStandardTarget)
           @@ PutI32(SizeOfXTEntryTarget, translateFromStandardVerdict(verdict).val))

marshalErrorTarget ==
    Struct(SizeOfXTErrorTarget,
           PutU16(0, SizeOfXTErrorTarget)
           @@ PutString(OffXTName, errorTargetName)
           @@ PutString(SizeOfXTEntryTarget, errorTargetName))

\* marshalTarget with the drop target marshalled as the accept target.
marshalTarget_DropAsAccept(target) ==
    CASE target = "UnconditionalAccept" -> marshalStandardTarget("Accept")
      [] target = "UnconditionalDrop" -> marshalStandardTarget("Accept")
      [] target = "Error" -> marshalErrorTarget

marshalTarget(target) ==
    CASE target = "UnconditionalAccept" -> marshalStandardTarget("Accept")
      [] target = "UnconditionalDrop" -> marshalStandardTarget("Drop")
      [] target = "Error" -> marshalErrorTarget

\* The UDP matcher is the one matcher kind modelled: its parameter is the
\* first 16-bit field of struct xt_udp, its block the entry-match header
\* and the payload padded to a multiple of 8 bytes.
alignUp(n, k) == ((n + k - 1) \div k) * k

marshalMatcher(matcher) ==
    LET size == alignUp(SizeOfXTEntryMatch + SizeOfXTUDP, 8)
    IN  Struct(size,
               PutU16(0, size)
               @@ PutString(OffXTName, matcherNameUDP)
               @@ PutU16(SizeOfXTEntryMatch, matcher.SourcePortStart))

\* buf is optVal[off : off+n].
unmarshalMatcher(name, optVal, off, n) ==
    IF name # matcherNameUDP THEN [err |-> "EINVAL", matcher |-> [SourcePortStart |-> 0]]
    ELSE IF n < SizeOfXTUDP THEN [err |-> "EINVAL", matcher |-> [SourcePortStart |-> 0]]
    ELSE [err |-> "", matcher |-> [SourcePortStart |-> GetU16(optVal, off)]]

NoTarget == "nil"

TargetErr(e) == [err |-> e, target |-> NoTarget]

\* lo <= hi <= n: the slice expression s[lo:hi] of a slice of n bytes is in
\* range.  Where it is not, Go panics; the model's result is "PANIC".
InRange(lo, hi, n) == 0 <= lo /\ lo <= hi /\ hi <= n

\* parseTarget from the unmarshalling of the xt_entry_target header on.
parseTargetSwitch(optVal, off, n) ==
    IF ~InRange(0, SizeOfXTEntryTarget, n) THEN TargetErr("PANIC")
    ELSE
      LET name == CString(optVal, off + OffXTName, XT_EXTENSION_MAXNAMELEN) IN
      IF name = <<>> THEN
           IF n # SizeOfXTStandardTarget THEN TargetErr("EINVAL")
           ELSE IF ~InRange(0, SizeOfXTStandardTarget, n) THEN TargetErr("PANIC")
           ELSE
             LET v == translateToStandardVerdict(GetI32(optVal, off + SizeOfXTEntryTarget)) IN
             IF v.err # "" THEN TargetErr("EINVAL")
             ELSE IF v.verdict = "Accept" THEN [err |-> "", target |-> "UnconditionalAccept"]
             ELSE IF v.verdict = "Drop" THEN [err |-> "", target |-> "UnconditionalDrop"]
             ELSE TargetErr("EINVAL")
      ELSE IF name = errorTargetName THEN
           IF n # SizeOfXTErrorTarget THEN TargetErr("EINVAL")
           ELSE IF ~InRange(0, SizeOfXTErrorTarget, n) THEN TargetErr("PANIC")
           ELSE
             LET inner == CString(optVal, off + SizeOfXTEntryTarget, XT_FUNCTION_MAXNAMELEN) IN
             IF inner = errorTargetName THEN [err |-> "", target |-> "Error"]
             ELSE TargetErr("EINVAL")
      ELSE TargetErr("EINVAL")

\* parseTarget without its check of the length against the header's size.
parseTarget_NoHeaderCheck(optVal, off, n) == parseTargetSwitch(optVal, off, n)

\* parseTarget(optVal[off : off+n])
parseTarget(optVal, off, n) ==
    IF n < SizeOfXTEntryTarget THEN TargetErr("EINVAL")
    ELSE parseTargetSwitch(optVal, off, n)

MatchersErr(e) == [err |-> e, matchers |-> <<>>]

RECURSIVE parseMatchersLoop(_, _, _, _)
parseMatchersLoop(optVal, off, n, matchers) ==
    IF n > 0 THEN
      IF n < SizeOfXTEntryMatch THEN MatchersErr("EINVAL")
      ELSE
        LET MatchSize == GetU16(optVal, off)
            name == CString(optVal, off + OffXTName, XT_EXTENSION_MAXNAMELEN)
        IN
        IF MatchSize < SizeOfXTEntryMatch THEN MatchersErr("EINVAL")
        ELSE IF n < MatchSize THEN MatchersErr("EINVAL")
        ELSE IF ~InRange(SizeOfXTEntryMatch, MatchSize, n) THEN MatchersErr("PANIC")
        ELSE
          LET m == unmarshalMatcher(name, optVal, off + SizeOfXTEntryMatch,
                                    MatchSize - SizeOfXTEntryMatch)
          IN
          IF m.err # "" THEN MatchersErr("EINVAL")
          ELSE parseMatchersLoop(optVal, off + MatchSize, n - MatchSize,
                                 Append(matchers, m.matcher))
    ELSE IF n # 0 THEN MatchersErr("EINVAL")
    ELSE [err |-> "", matchers |-> matchers]

\* parseMatchers(filter, optVal[off : off+n])
parseMatchers(filter, optVal, off, n) == parseMatchersLoop(optVal, off, n, <<>>)

(***************************************************************************)
(* Tables.  A table is [Rules, BuiltinChains, Underflows, metadata]; the   *)
(* chains map hooks to rule indices (from 0, as in the code; Rules[i+1] is *)
(* the rule of index i).                                                   *)
(***************************************************************************)
ZeroMetadata ==
    [HookEntry |-> [h \in Hooks |-> 0], Underflow |-> [h \in Hooks |-> 0],
     NumEntries |-> 0, Size |-> 0]

Rule(target) == [Filter |-> [Protocol |-> 0], Matchers |-> <<>>, Target |-> target]

EmptyFilterTable ==
    [Rules |-> <<>>,
     BuiltinChains |-> [h \in {Input, Forward, Output} |-> HookUnset],
     Underflows |-> [h \in {Input, Forward, Output} |-> HookUnset],
     metadata |-> ZeroMetadata]

DefaultTables ==
    (TablenameNat :>
        [Rules |-> <<Rule("UnconditionalAccept"), Rule("UnconditionalAccept"),
                     Rule("UnconditionalAccept"), Rule("UnconditionalAccept"),
                     Rule("Error")>>,
         BuiltinChains |-> (Prerouting :> 0) @@ (Input :> 1) @@ (Output :> 2) @@ (Postrouting :> 3),
         Underflows |-> (Prerouting :> 0) @@ (Input :> 1) @@ (Output :> 2) @@ (Postrouting :> 3),
         metadata |-> ZeroMetadata])
    @@ (TablenameMangle :>
        [Rules |-> <<Rule("UnconditionalAccept"), Rule("UnconditionalAccept"), Rule("Error")>>,
         BuiltinChains |-> (Prerouting :> 0) @@ (Output :> 1),
         Underflows |-> (Prerouting :> 0) @@ (Output :> 1),
         metadata |-> ZeroMetadata])
    @@ (TablenameFilter :>
        [Rules |-> <<Rule("UnconditionalAccept"), Rule("UnconditionalAccept"),
                     Rule("UnconditionalAccept"), Rule("Error")>>,
         BuiltinChains |-> (Input :> 0) @@ (Forward :> 1) @@ (Output :> 2),
         Underflows |-> (Input :> 0) @@ (Forward :> 1) @@ (Output :> 2),
         metadata |-> ZeroMetadata])

\* table.ValidHooks(), as the set of the hooks whose bit is set.
ValidHooks(table) == DOMAIN table.BuiltinChains

hookFromLinux(hook) == hook

(***************************************************************************)
(* The table encoder.                                                      *)
(***************************************************************************)
\* The blocks of matchers[lo .. hi], one after the other (lines 196-207).
\* The appends are grouped by halves, which gives the same bytes and keeps
\* the evaluation shallow for a rule of many matchers.
RECURSIVE marshalMatchers(_, _, _)
marshalMatchers(matchers, lo, hi) ==
    IF lo > hi THEN NoBytes
    ELSE IF lo = hi THEN marshalMatcher(matchers[lo])
    ELSE Cat(marshalMatchers(matchers, lo, (lo + hi) \div 2),
             marshalMatchers(matchers, ((lo + hi) \div 2) + 1, hi))

\* The loop over table.Rules of convertNetstackToBinary, from rule ruleIdx on.
RECURSIVE convertRules(_, _, _, _)
convertRules(table, ruleIdx, entries, meta) ==
    IF ruleIdx >= Len(table.Rules) THEN [entries |-> entries, meta |-> [meta EXCEPT !.Size = entries.Size]]
    ELSE
      LET rule == table.Rules[ruleIdx + 1]
          meta1 == [meta EXCEPT
                      !.HookEntry = [h \in Hooks |->
                          IF h \in DOMAIN table.BuiltinChains /\ table.BuiltinChains[h] = ruleIdx
                          THEN entries.Size ELSE @[h]],
                      !.Underflow = [h \in Hooks |->
                          IF h \in DOMAIN table.Underflows /\ table.Underflows[h] = ruleIdx
                          THEN entries.Size ELSE @[h]]]
          matchers == marshalMatchers(rule.Matchers, 1, Len(rule.Matchers))
          target == marshalTarget(rule.Target)
          TargetOffset == (SizeOfIPTEntry + matchers.len) % U16
          NextOffset == (TargetOffset + target.len) % U16
          entry == [Protocol |-> rule.Filter.Protocol % U16,
                    TargetOffset |-> TargetOffset, NextOffset |-> NextOffset,
                    Elems |-> Cat(matchers, target)]
      IN  convertRules(table, ruleIdx + 1,
                       [entries EXCEPT !.Size = U32Add(@, NextOffset),
                                       !.Entrytable = Append(@, entry)],
                       [meta1 EXCEPT !.NumEntries = U32Add(@, 1)])

NoEntries(tablename) == [Name |-> tablename, Size |-> 0, Entrytable |-> <<>>]

convertNetstackToBinary(tablename, table) ==
    IF XT_TABLE_MAXNAMELEN < Len(tablename)
    THEN [err |-> "name too long", entries |-> NoEntries(<<>>), meta |-> ZeroMetadata]
    ELSE LET r == convertRules(table, 0, NoEntries(tablename), ZeroMetadata)
         IN  [err |-> "", entries |-> r.entries, meta |-> r.meta]

\* binary.Size(entries)
RECURSIVE EntrytableSize(_, _)
EntrytableSize(entrytable, i) ==
    IF i > Len(entrytable) THEN 0
    ELSE SizeOfIPTEntry + entrytable[i].Elems.len + EntrytableSize(entrytable, i + 1)

binarySize(entries) == SizeOfIPTGetEntries + EntrytableSize(entries.Entrytable, 1)

(***************************************************************************)
(* The table decoder: SetEntries.                                          *)
(***************************************************************************)
containsUnsupportedFields(optVal, off) ==
    \/ ~AllZero(optVal, off, OffIPProtocol)
    \/ Byte(optVal, off + OffIPFlags) # 0
    \/ Byte(optVal, off + OffIPInverseFlags) # 0

filterFromIPTIP(optVal, off) ==
    IF containsUnsupportedFields(optVal, off)
    THEN [err |-> "EINVAL", filter |-> [Protocol |-> 0]]
    ELSE [err |-> "", filter |-> [Protocol |-> GetU16(optVal, off + OffIPProtocol)]]

\* What the entry loop returns: why names the check that rejected, rules
\* and offsets what was parsed, consumed the bytes of optVal taken, lens
\* the bytes each entry took.
EntriesResult(err, why, st) ==
    [err |-> err, why |-> why, rules |-> st.rules, offsets |-> st.offsets,
     consumed |-> st.off, lens |-> st.lens]

\* The state of the entry loop: off and n are the start and the length of
\* what is left of optVal, offset the running sum of the next offsets.
LoopStart(off, n) ==
    [off |-> off, n |-> n, entryIdx |-> 0, offset |-> 0, offsets |-> <<>>,
     rules |-> <<>>, lens |-> <<>>]

RECURSIVE parseEntries(_, _, _)

\* Lines 384-401: the target tg parsed from the target region, which starts
\* at off2; the rule and its offset are appended.
entryTarget(optVal, NumEntries, st, NextOffset, filter, matchers, off2, targetSize, tg) ==
    IF tg.err # "" THEN EntriesResult(tg.err, "target", st)
    ELSE parseEntries(optVal, NumEntries,
           [off |-> off2 + targetSize,
            n |-> st.n - ((off2 + targetSize) - st.off),
            entryIdx |-> st.entryIdx + 1,
            offset |-> U32Add(st.offset, NextOffset),
            offsets |-> Append(st.offsets, st.offset),
            rules |-> Append(st.rules, [Filter |-> filter, Matchers |-> matchers,
                                        Target |-> tg.target]),
            lens |-> Append(st.lens, (off2 + targetSize) - st.off)])

\* Lines 371-384: the matchers ms parsed from the matcher region; the target
\* region is what follows, of NextOffset - TargetOffset bytes (uint16).
entryMatchers(optVal, NumEntries, st, TargetOffset, NextOffset, filter, off2, n2, ms) ==
    IF ms.err # "" THEN EntriesResult(ms.err, "matchers", st)
    ELSE IF n2 < (NextOffset - TargetOffset + U16) % U16
    THEN EntriesResult("EINVAL", "target size", st)
    ELSE IF ~InRange(0, (NextOffset - TargetOffset + U16) % U16, n2)
    THEN EntriesResult("PANIC", "target slice", st)
    ELSE entryTarget(optVal, NumEntries, st, NextOffset, filter, ms.matchers, off2,
                     (NextOffset - TargetOffset + U16) % U16,
                     parseTarget(optVal, off2, (NextOffset - TargetOffset + U16) % U16))

\* Lines 357-371: the filter f of the entry header; the matcher region is
\* what follows the header, of TargetOffset - SizeOfIPTEntry bytes (uint16).
entryFilter(optVal, NumEntries, st, TargetOffset, NextOffset, f) ==
    LET matchersSize == (TargetOffset - SizeOfIPTEntry + U16) % U16
        off1 == st.off + SizeOfIPTEntry
        n1 == st.n - SizeOfIPTEntry
    IN
    IF f.err # "" THEN EntriesResult("EINVAL", "iptip", st)
    ELSE IF n1 < matchersSize THEN EntriesResult("EINVAL", "matchers size", st)
    ELSE IF ~InRange(0, matchersSize, n1) THEN EntriesResult("PANIC", "matchers slice", st)
    ELSE entryMatchers(optVal, NumEntries, st, TargetOffset, NextOffset, f.filter,
                       off1 + matchersSize, n1 - matchersSize,
                       parseMatchers(f.filter, optVal, off1, matchersSize))

\* Lines 350-357: the entry header unmarshalled.
entryHeader(optVal, NumEntries, st, TargetOffset, NextOffset) ==
    IF TargetOffset < SizeOfIPTEntry THEN EntriesResult("EINVAL", "target offset", st)
    ELSE entryFilter(optVal, NumEntries, st, TargetOffset, NextOffset,
                     filterFromIPTIP(optVal, st.off))

\* The loop over the entries without its check that an entry header is
\* left in optVal.
parseEntries_NoEntrySizeCheck(optVal, NumEntries, st) ==
    IF ~U32Less(st.entryIdx, NumEntries) THEN EntriesResult("", "", st)
    ELSE IF ~InRange(0, SizeOfIPTEntry, st.n) THEN EntriesResult("PANIC", "entry slice", st)
    ELSE entryHeader(optVal, NumEntries, st,
                     GetU16(optVal, st.off + OffEntryTargetOffset),
                     GetU16(optVal, st.off + OffEntryNextOffset))

\* The loop over the entries (lines 336-402).
parseEntries(optVal, NumEntries, st) ==
    IF ~U32Less(st.entryIdx, NumEntries) THEN EntriesResult("", "", st)
    ELSE IF st.n < SizeOfIPTEntry THEN EntriesResult("EINVAL", "entry size", st)
    ELSE IF ~InRange(0, SizeOfIPTEntry, st.n) THEN EntriesResult("PANIC", "entry slice", st)
    ELSE entryHeader(optVal, NumEntries, st,
                     GetU16(optVal, st.off + OffEntryTargetOffset),
                     GetU16(optVal, st.off + OffEntryNextOffset))

\* The inner loop of the hook resolution: the index of the last rule whose
\* offset is the declared one, or what the chain held before (HookUnset).
RuleIdxAt(offsets, declared, before) ==
    LET hit == {i \in 1 .. Len(offsets) : offsets[i] = declared}
    IN  IF hit = {} THEN before ELSE (CHOOSE i \in hit : \A j \in hit : j <= i) - 1

\* The hook resolution taking the first rule for a declared offset that
\* matches none.
setHooks_DefaultToFirst(table, offsets, HookEntry, Underflow) ==
    [table EXCEPT
       !.BuiltinChains = [hk \in DOMAIN @ |-> RuleIdxAt(offsets, HookEntry[hk], 0)],
       !.Underflows = [hk \in DOMAIN @ |-> RuleIdxAt(offsets, Underflow[hk], 0)]]

\* Lines 406-416: for each hook of the table's valid hooks, the rule whose
\* offset is the declared entry (underflow) offset.
setHooks(table, offsets, HookEntry, Underflow) ==
    [table EXCEPT
       !.BuiltinChains = [hk \in DOMAIN @ |->
            IF hk \in ValidHooks(table)
            THEN RuleIdxAt(offsets, HookEntry[hookFromLinux(hk)], @[hk]) ELSE @[hk]],
       !.Underflows = [hk \in DOMAIN @ |->
            IF hk \in ValidHooks(table)
            THEN RuleIdxAt(offsets, Underflow[hookFromLinux(hk)], @[hk]) ELSE @[hk]]]

\* Lines 417-424.
hookIsUnset(table) ==
    \E hk \in ValidHooks(table) :
        table.BuiltinChains[hk] = HookUnset \/ table.Underflows[hk] = HookUnset

\* The chain check letting every chain through.
checkChains_Skipped(table) == ""

\* Lines 431-438: "" when every chain but INPUT starts at an accept rule;
\* an index outside table.Rules is Go's index-out-of-range panic.
checkChains(table) ==
    IF \E hook \in DOMAIN table.BuiltinChains :
          hook # Input /\ ~(table.BuiltinChains[hook] \in 0 .. (Len(table.Rules) - 1))
    THEN "PANIC"
    ELSE IF \E hook \in DOMAIN table.BuiltinChains :
          hook # Input /\ table.Rules[table.BuiltinChains[hook] + 1].Target # "UnconditionalAccept"
    THEN "EINVAL"
    ELSE ""

ReplaceHeader(optVal) ==
    [Name |-> CString(optVal, 0, XT_TABLE_MAXNAMELEN),
     NumEntries |-> GetU32(optVal, OffReplaceNumEntries),
     Size |-> GetU32(optVal, OffReplaceSize),
     HookEntry |-> [h \in Hooks |-> GetU32(optVal, OffReplaceHookEntry + 4 * h)],
     Underflow |-> [h \in Hooks |-> GetU32(optVal, OffReplaceUnderflow + 4 * h)]]

SetResult(err, why, name, table, parsed) ==
    [err |-> err, why |-> why, name |-> name, table |-> table,
     offsets |-> parsed.offsets, consumed |-> parsed.consumed, lens |-> parsed.lens]

NothingParsed == EntriesResult("", "", LoopStart(0, 0))

\* Lines 428-451: the hooks are set in table; the chains are checked and the
\* metadata is what the replace header declares.
validateChains(replace, parsed, table, chains) ==
    IF chains # "" THEN SetResult(chains, "hook unsupported", replace.Name, table, parsed)
    ELSE SetResult("", "", replace.Name,
                   [table EXCEPT !.metadata =
                       [HookEntry |-> replace.HookEntry, Underflow |-> replace.Underflow,
                        NumEntries |-> replace.NumEntries, Size |-> replace.Size]],
                   parsed)

\* Lines 404-426: table holds the rules parsed and the hooks resolved.
validateHooks(replace, parsed, table) ==
    IF hookIsUnset(table) THEN SetResult("EINVAL", "hook unset", replace.Name, table, parsed)
    ELSE validateChains(replace, parsed, table, checkChains(table))

\* Lines 333-402: parsed is what the entry loop returned.
validateEntries(replace, parsed) ==
    IF parsed.err # ""
    THEN SetResult(parsed.err, parsed.why, replace.Name,
                   [EmptyFilterTable EXCEPT !.Rules = parsed.rules], parsed)
    ELSE validateHooks(replace, parsed,
                       setHooks([EmptyFilterTable EXCEPT !.Rules = parsed.rules],
                                parsed.offsets, replace.HookEntry, replace.Underflow))

\* Lines 321-333: replace is the header unmarshalled.
validateReplace(optVal, replace) ==
    IF replace.Name # TablenameFilter
    THEN SetResult("EINVAL", "table name", replace.Name, EmptyFilterTable, NothingParsed)
    ELSE validateEntries(replace,
                         parseEntries(optVal, replace.NumEntries,
                                      LoopStart(SizeOfIPTReplace,
                                                optVal.len - SizeOfIPTReplace)))

\* SetEntries up to the point where the stack's tables are touched (lines
\* 310-451): the error returned, and the table built so far.
parseAndValidate(optVal) ==
    IF optVal.len < SizeOfIPTReplace
    THEN SetResult("EINVAL", "replace size", <<>>, EmptyFilterTable, NothingParsed)
    ELSE IF ~InRange(0, SizeOfIPTReplace, optVal.len)
    THEN SetResult("PANIC", "replace slice", <<>>, EmptyFilterTable, NothingParsed)
    ELSE validateReplace(optVal, ReplaceHeader(optVal))

\* ipt.Tables[name] = table; stack.SetIPTables(ipt)
storeTable(tabs, name, table) == (name :> table) @@ tabs

\* SetEntries writing the table it is building into the stack's tables once
\* the entries are parsed, before the hooks and the chains are checked.
commit_BeforeChecks(tabs, r) ==
    [err |-> r.err, why |-> r.why, offsets |-> r.offsets, consumed |-> r.consumed,
     lens |-> r.lens, replaceName |-> r.name,
     tables |-> IF r.err = "" \/ r.why \in {"hook unset", "hook unsupported"}
                THEN storeTable(tabs, r.name, r.table) ELSE tabs]

\* Lines 445-455: r is what SetEntries found; the stack's tables are written
\* only when nothing was rejected.
commit(tabs, r) ==
    [err |-> r.err, why |-> r.why, offsets |-> r.offsets, consumed |-> r.consumed,
     lens |-> r.lens, replaceName |-> r.name,
     tables |-> IF r.err = "" THEN storeTable(tabs, r.name, r.table) ELSE tabs]

\* SetEntries(stack, optVal): tabs is the stack's tables before the call;
\* the error returned and the stack's tables after it.
SetEntries(tabs, optVal) == commit(tabs, parseAndValidate(optVal))

(***************************************************************************)
(* GetInfo, GetEntries, FillDefaultIPTables.                               *)
(***************************************************************************)
findTable(tabs, tablename) ==
    IF tablename \in DOMAIN tabs
    THEN [ok |-> TRUE, table |-> tabs[tablename]]
    ELSE [ok |-> FALSE, table |-> EmptyFilterTable]

NoInfo == [ValidHooks |-> {}, metadata |-> ZeroMetadata]

\* GetInfo on the table found: the hooks and the metadata, both of the one
\* table value read.
infoOf(table) == [ValidHooks |-> ValidHooks(table), metadata |-> table.metadata]

GetInfo(tabs, name, copyInFails) ==
    IF copyInFails THEN [err |-> "EFAULT", info |-> NoInfo]
    ELSE LET f == findTable(tabs, name) IN
         IF ~f.ok THEN [err |-> "EINVAL", info |-> NoInfo]
         ELSE [err |-> "", info |-> infoOf(f.table)]

\* GetEntries on the table found (lines 106-121).
entriesOf(name, table, outLen) ==
    LET c == convertNetstackToBinary(name, table) IN
    IF c.err # "" THEN [err |-> "EINVAL", entries |-> NoEntries(<<>>)]
    ELSE IF c.meta # table.metadata THEN [err |-> "PANIC", entries |-> NoEntries(<<>>)]
    ELSE IF binarySize(c.entries) > outLen THEN [err |-> "EINVAL", entries |-> NoEntries(<<>>)]
    ELSE [err |-> "", entries |-> c.entries]

GetEntries(tabs, name, outLen, copyInFails) ==
    IF copyInFails THEN [err |-> "EFAULT", entries |-> NoEntries(<<>>)]
    ELSE LET f == findTable(tabs, name) IN
         IF ~f.ok THEN [err |-> "EINVAL", entries |-> NoEntries(<<>>)]
         ELSE entriesOf(name, f.table, outLen)

FillDefaultIPTables ==
    [name \in DOMAIN DefaultTables |->
        [DefaultTables[name] EXCEPT
            !.metadata = convertNetstackToBinary(name, DefaultTables[name]).meta]]

(***************************************************************************)
(* The inputs: the option values handed to SetEntries.  A blob is built    *)
(* from a description: the entries (each a kind of target, a number of     *)
(* matchers and possibly a flaw), what the replace header declares, bytes  *)
(* after the last entry, and a length the whole is cut to.                 *)
(***************************************************************************)
MaxEntries == 2
MaxMatchers == 1
MaxVerdict == 40

nameLOG == <<76, 79, 71>>
nameChain == <<102, 111, 111>>
nameTCQ == <<116, 99, 113>>
IPPROTO_UDP == 17
IPPROTO_TCP == 6

GoodTargets == {"accept", "drop", "error"}
BadTargets == {"queue", "return", "unknown", "chain", "badname", "nohdr"}
EntryFlaws == {"ipflags", "ipaddr", "smallTO", "to+8", "no+8", "no<to"}
MatcherFlaws == {"mname", "msize<hdr", "msize>region", "mpayload"}

Kind(tgt, nm, flaw) == [tgt |-> tgt, nm |-> nm, flaw |-> flaw]

AcceptKind == Kind("accept", 0, "none")

GoodKinds ==
    {Kind(t, m, "none") : t \in GoodTargets, m \in 0 .. MaxMatchers}
    \cup {Kind("accept", 1, "mwide")}

Kinds ==
    GoodKinds
    \cup {Kind(t, 0, "none") : t \in BadTargets}
    \cup {Kind("accept", 0, f) : f \in EntryFlaws}
    \cup {Kind("accept", 1, f) : f \in MatcherFlaws}

StandardTargetBytes(name, verdict) ==
    Struct(SizeOfXTStandardTarget,
           PutU16(0, SizeOfXTStandardTarget) @@ PutString(OffXTName, name)
           @@ PutI32(SizeOfXTEntryTarget, verdict))

ErrorTargetBytes(inner) ==
    Struct(SizeOfXTErrorTarget,
           PutU16(0, SizeOfXTErrorTarget) @@ PutString(OffXTName, errorTargetName)
           @@ PutString(SizeOfXTEntryTarget, inner))

TargetBytes(tgt) ==
    CASE tgt = "accept" -> StandardTargetBytes(<<>>, -2)
      [] tgt = "drop" -> StandardTargetBytes(<<>>, -1)
      [] tgt = "queue" -> StandardTargetBytes(<<>>, -4)
      [] tgt = "return" -> StandardTargetBytes(<<>>, -5)
      [] tgt = "unknown" -> StandardTargetBytes(<<>>, 5)
      [] tgt = "badname" -> StandardTargetBytes(nameLOG, -2)
      [] tgt = "error" -> ErrorTargetBytes(errorTargetName)
      [] tgt = "chain" -> ErrorTargetBytes(nameChain)
      [] tgt = "nohdr" -> Struct(16, PutU16(0, 16))

\* One matcher block: size bytes, declaring MatchSize declared.
MatcherBytes(name, size, declared) ==
    Struct(size, PutU16(0, declared) @@ PutString(OffXTName, name)
                 @@ PutU16(SizeOfXTEntryMatch, 53))

\* The size of a matcher block with which an entry that has a standard
\* target is of 2^16 bytes.
WrapMatchSize == U16 - SizeOfIPTEntry - SizeOfXTStandardTarget

FirstMatcherBytes(flaw) ==
    CASE flaw = "mname" -> MatcherBytes(nameTCQ, 48, 48)
      [] flaw = "msize<hdr" -> MatcherBytes(matcherNameUDP, 48, 16)
      [] flaw = "msize>region" -> MatcherBytes(matcherNameUDP, 48, 56)
      [] flaw = "mpayload" -> MatcherBytes(matcherNameUDP, 40, 40)
      [] flaw = "mwide" -> MatcherBytes(matcherNameUDP, 56, 56)
      [] flaw = "mwrap" -> MatcherBytes(matcherNameUDP, WrapMatchSize, WrapMatchSize)
      [] OTHER -> MatcherBytes(matcherNameUDP, 48, 48)

RECURSIVE MatchersBytes(_, _)
MatchersBytes(k, i) ==
    IF i > k.nm THEN NoBytes
    ELSE Cat(IF i = 1 THEN FirstMatcherBytes(k.flaw) ELSE MatcherBytes(matcherNameUDP, 48, 48),
             MatchersBytes(k, i + 1))

KindProtocol(k) ==
    IF k.nm > 0 THEN IPPROTO_UDP ELSE IF k.tgt = "drop" THEN IPPROTO_TCP ELSE 0

\* The target and next offsets an entry of kind k declares.
DeclaredTargetOffset(k) ==
    LET m == MatchersBytes(k, 1).len IN
    CASE k.flaw = "smallTO" -> SizeOfIPTEntry - 8
      [] k.flaw = "to+8" -> SizeOfIPTEntry + m + 8
      [] OTHER -> SizeOfIPTEntry + m

DeclaredNextOffset(k) ==
    LET full == SizeOfIPTEntry + MatchersBytes(k, 1).len + TargetBytes(k.tgt).len IN
    CASE k.flaw = "no+8" -> full + 8
      [] k.flaw = "no<to" -> DeclaredTargetOffset(k) - 8
      [] OTHER -> full % U16

EntryBytes(k) ==
    Cat(Struct(SizeOfIPTEntry,
               PutU16(OffIPProtocol, KindProtocol(k))
               @@ PutU8(OffIPFlags, IF k.flaw = "ipflags" THEN 1 ELSE 0)
               @@ PutU8(0, IF k.flaw = "ipaddr" THEN 10 ELSE 0)
               @@ PutU16(OffEntryTargetOffset, DeclaredTargetOffset(k))
               @@ PutU16(OffEntryNextOffset, DeclaredNextOffset(k))),
        Cat(MatchersBytes(k, 1), TargetBytes(k.tgt)))

RECURSIVE EntriesBytes(_, _)
EntriesBytes(ents, i) ==
    IF i > Len(ents) THEN NoBytes ELSE Cat(EntryBytes(ents[i]), EntriesBytes(ents, i + 1))

\* The sum of the next offsets the first i entries declare.
RECURSIVE DeclaredOffset(_, _)
DeclaredOffset(ents, i) ==
    IF i = 0 THEN 0 ELSE DeclaredOffset(ents, i - 1) + DeclaredNextOffset(ents[i])

\* What a hook declares: rule index t, or (t = -1) an offset inside an entry.
HookOffset(ents, t) == IF t < 0 THEN 4 ELSE DeclaredOffset(ents, t)

ReplaceBytes(name, numEntries, size, HookEntry, Underflow) ==
    Struct(SizeOfIPTReplace,
           PutString(0, name)
           @@ PutU32(OffReplaceNumEntries, numEntries)
           @@ PutU32(OffReplaceSize, size)
           @@ PutU32(OffReplaceHookEntry, HookEntry[0])
           @@ PutU32(OffReplaceHookEntry + 4, HookEntry[1])
           @@ PutU32(OffReplaceHookEntry + 8, HookEntry[2])
           @@ PutU32(OffReplaceHookEntry + 12, HookEntry[3])
           @@ PutU32(OffReplaceHookEntry + 16, HookEntry[4])
           @@ PutU32(OffReplaceUnderflow, Underflow[0])
           @@ PutU32(OffReplaceUnderflow + 4, Underflow[1])
           @@ PutU32(OffReplaceUnderflow + 8, Underflow[2])
           @@ PutU32(OffReplaceUnderflow + 12, Underflow[3])
           @@ PutU32(OffReplaceUnderflow + 16, Underflow[4]))

\* The blob a description stands for, before it is cut.
FullBlob(d) ==
    Cat(ReplaceBytes(d.name, Len(d.ents) + d.num,
                     DeclaredOffset(d.ents, Len(d.ents)) + d.size,
                     [h \in Hooks |-> IF d.he[h] = -2 THEN 0 ELSE HookOffset(d.ents, d.he[h])],
                     [h \in Hooks |-> IF d.uf[h] = -2 THEN 0 ELSE HookOffset(d.ents, d.uf[h])]),
        Cat(EntriesBytes(d.ents, 1), Struct(d.trail, <<>>)))

Blob(d) == LET b == FullBlob(d) IN IF d.cut >= 0 /\ d.cut < b.len THEN Prefix(b, d.cut) ELSE b

\* n entries, all plain accept rules but the p-th, of kind k; INPUT starts
\* at the p-th, FORWARD and OUTPUT at rule index o.  -2 in he/uf: the hook
\* is none of the table's, and its offset is declared 0.
Base(n, p, k, o) ==
    [name |-> TablenameFilter,
     ents |-> [i \in 1 .. n |-> IF i = p THEN k ELSE AcceptKind],
     he |-> (Prerouting :> -2) @@ (Input :> p - 1) @@ (Forward :> o) @@ (Output :> o)
            @@ (Postrouting :> -2),
     uf |-> (Prerouting :> -2) @@ (Input :> p - 1) @@ (Forward :> o) @@ (Output :> o)
            @@ (Postrouting :> -2),
     num |-> 0, size |-> 0, trail |-> 0, cut |-> -1]

Plain(n) == Base(n, 1, AcceptKind, 0)

\* One entry of every kind at every place, the other chains starting at
\* it or at the rule after it.
KindDescs ==
    UNION {UNION {{Base(n, p, k, p - 1), Base(n, p, k, p % n)} : p \in 1 .. n, k \in Kinds} :
           n \in 1 .. MaxEntries}

\* Every hook's entry and underflow offset, one at a time, set to every
\* rule, to the end of the entries and to an offset inside an entry.
HookDescs ==
    UNION {{[Plain(n) EXCEPT !.he[h] = t] : h \in Hooks, t \in -1 .. n}
           \cup {[Plain(n) EXCEPT !.uf[h] = t] : h \in Hooks, t \in -1 .. n} :
           n \in 1 .. MaxEntries}

\* The replace header: other names, a wrong size, a wrong entry count;
\* bytes after the entries; the blob cut short.
HeaderDescs ==
    {Plain(0), [Plain(0) EXCEPT !.num = -1]}
    \cup {[Plain(n) EXCEPT !.name = nm] : n \in 1 .. MaxEntries, nm \in {TablenameNat, <<>>}}
    \cup {[Plain(n) EXCEPT !.size = s] : n \in 1 .. MaxEntries, s \in {8, -8}}
    \cup {[Plain(n) EXCEPT !.num = c] : n \in 1 .. MaxEntries, c \in {1, -1}}
    \cup {[Plain(n) EXCEPT !.trail = 8] : n \in 1 .. MaxEntries}
    \cup {[Plain(n) EXCEPT !.cut = c] : n \in 1 .. MaxEntries,
              c \in {0, SizeOfIPTReplace - 1, SizeOfIPTReplace,
                     SizeOfIPTReplace + SizeOfIPTEntry,
                     SizeOfIPTReplace + SizeOfIPTEntry + SizeOfXTStandardTarget - 1}}

Descs == KindDescs \cup HookDescs \cup HeaderDescs

(***************************************************************************)
(* The handlers as steps: a request arrives (req), the handler runs to its *)
(* end (call records the request and what it returned), the caller takes   *)
(* the result (Return).  A panic ends the process.                         *)
(***************************************************************************)
NoReq == [op |-> "none"]
Idle == [op |-> "idle", err |-> ""]
NoProc == [pc |-> "idle"]
TableNames == {TablenameFilter, TablenameNat, TablenameMangle}
OutLens == {0, U16}

Ready == call = Idle /\ req = NoReq

Init ==
    /\ tables = <<>>
    /\ installed = FALSE
    /\ req = NoReq
    /\ call = Idle
    /\ rd = NoProc
    /\ wr = NoProc

DoFillDefaultIPTables ==
    /\ ~installed
    /\ Ready
    /\ tables' = FillDefaultIPTables
    /\ installed' = TRUE
    /\ call' = [op |-> "FillDefaultIPTables", err |-> ""]
    /\ UNCHANGED <<req, rd, wr>>

CallSetEntries ==
    /\ installed /\ Ready
    /\ \E d \in Descs : req' = [op |-> "SetEntries", d |-> d, optVal |-> Blob(d)]
    /\ UNCHANGED <<tables, installed, call, rd, wr>>

CallGetInfo ==
    /\ Ready
    /\ \E name \in TableNames, fault \in BOOLEAN :
          req' = [op |-> "GetInfo", name |-> name, fault |-> fault]
    /\ UNCHANGED <<tables, installed, call, rd, wr>>

CallGetEntries ==
    /\ Ready
    /\ \E name \in TableNames, outLen \in OutLens, fault \in BOOLEAN :
          req' = [op |-> "GetEntries", name |-> name, outLen |-> outLen, fault |-> fault]
    /\ UNCHANGED <<tables, installed, call, rd, wr>>

\* What a SetEntries call leaves: the stack's tables, and the record of
\* the call.
SetEntriesDone(r) ==
    /\ tables' = r.tables
    /\ call' = [op |-> "SetEntries", err |-> r.err, why |-> r.why, d |-> req.d,
                optVal |-> req.optVal, offsets |-> r.offsets, consumed |-> r.consumed,
                lens |-> r.lens]

DoSetEntries ==
    /\ req.op = "SetEntries"
    /\ SetEntriesDone(SetEntries(tables, req.optVal))
    /\ req' = NoReq
    /\ UNCHANGED <<installed, rd, wr>>

GetInfoDone(r) ==
    call' = [op |-> "GetInfo", err |-> r.err, name |-> req.name, info |-> r.info]

DoGetInfo ==
    /\ req.op = "GetInfo"
    /\ GetInfoDone(GetInfo(tables, req.name, req.fault))
    /\ req' = NoReq
    /\ UNCHANGED <<tables, installed, rd, wr>>

GetEntriesDone(r) ==
    call' = [op |-> "GetEntries", err |-> r.err, name |-> req.name,
             outLen |-> req.outLen, entries |-> r.entries]

DoGetEntries ==
    /\ req.op = "GetEntries"
    /\ GetEntriesDone(GetEntries(tables, req.name, req.outLen, req.fault))
    /\ req' = NoReq
    /\ UNCHANGED <<tables, installed, rd, wr>>

Return ==
    /\ call.op # "idle"
    /\ call.err # "PANIC"
    /\ call' = Idle
    /\ UNCHANGED <<tables, installed, req, rd, wr>>

Next ==
    \/ DoFillDefaultIPTables
    \/ CallSetEntries
    \/ CallGetInfo
    \/ CallGetEntries
    \/ DoSetEntries
    \/ DoGetInfo
    \/ DoGetEntries
    \/ Return

Spec == Init /\ [][Next]_vars

(***************************************************************************)
(* The pure functions on their own: the verdict codec, parseTarget, and    *)
(* SetEntries on every prefix of every blob it accepts.  The input is      *)
(* drawn in the initial state; one step applies the function.              *)
(***************************************************************************)
nameERRO == <<69, 82, 82, 79>>
nameERRORS == <<69, 82, 82, 79, 82, 83>>

Verdicts == {"Accept", "Drop", "Queue", "Return", "Jump", "Invalid"}

\* The int32 values decoded: those around zero, and the two extremes.
VerdictVals == ((-MaxVerdict) .. MaxVerdict) \cup {MaxInt32, (-MaxInt32) - 1}

\* A target region of n bytes: the header's name, and after the header a
\* verdict (pk = "v") or a name (pk = "s").
TargetNames == {<<>>, errorTargetName, nameERRO, nameERRORS, nameLOG}
TargetLens ==
    {0, 8, SizeOfXTEntryTarget - 1, SizeOfXTEntryTarget, SizeOfXTStandardTarget - 1,
     SizeOfXTStandardTarget, SizeOfXTStandardTarget + 1, SizeOfXTStandardTarget + 8,
     SizeOfXTErrorTarget - 1, SizeOfXTErrorTarget, SizeOfXTErrorTarget + 1,
     SizeOfXTErrorTarget + 8}
TargetPayloads ==
    {[pk |-> "v", v |-> v, s |-> <<>>] : v \in {-6, -5, -4, -3, -2, -1, 0, 1, NF_QUEUE, MaxInt32}}
    \cup {[pk |-> "s", v |-> 0, s |-> nm] : nm \in {errorTargetName, nameERRO, nameERRORS, nameChain}}

TargetDescs == {[name |-> nm, n |-> n, p |-> p] : nm \in TargetNames, n \in TargetLens,
                                                  p \in TargetPayloads}

TargetRegion(t) ==
    Prefix(Struct(SizeOfXTErrorTarget + 8,
                  PutU16(0, t.n) @@ PutString(OffXTName, t.name)
                  @@ (IF t.p.pk = "v" THEN PutI32(SizeOfXTEntryTarget, t.p.v)
                      ELSE PutString(SizeOfXTEntryTarget, t.p.s))),
           t.n)

\* The blobs of Descs that SetEntries accepts, and each cut to every
\* shorter length.
AcceptedDescs == {d \in Descs : d.cut = -1 /\ parseAndValidate(FullBlob(d)).err = ""}

\* req is a request to SetEntries with a prefix of a blob; p is the
\* description of the blob and the blob.
PrefixReq(p) ==
    \E c \in 0 .. (p[2].len - 1) :
        req = [op |-> "SetEntries", d |-> [p[1] EXCEPT !.cut = c], optVal |-> Prefix(p[2], c)]

\* A filter table whose second rule has as many UDP matchers as make the
\* bytes of its entry, with an error target, more than 16 bits count.
WideRuleMatchers ==
    ((U16 - SizeOfIPTEntry - SizeOfXTErrorTarget)
        \div marshalMatcher([SourcePortStart |-> 53]).len) + 1

WideRuleTable ==
    [Rules |-> <<Rule("UnconditionalAccept"),
                 [Filter |-> [Protocol |-> IPPROTO_UDP],
                  Matchers |-> [i \in 1 .. WideRuleMatchers |-> [SourcePortStart |-> 53]],
                  Target |-> "Error"]>>,
     BuiltinChains |-> [h \in {Input, Forward, Output} |-> 0],
     Underflows |-> [h \in {Input, Forward, Output} |-> 0],
     metadata |-> ZeroMetadata]

\* The tables encoded: the default ones, those SetEntries stores for the
\* blobs of Descs, and the one with the wide rule.
EncodedTables ==
    {[name |-> n, table |-> FillDefaultIPTables[n]] : n \in DOMAIN FillDefaultIPTables}
    \cup {[name |-> TablenameFilter, table |-> parseAndValidate(FullBlob(d)).table] :
             d \in AcceptedDescs}
    \cup {[name |-> TablenameFilter, table |-> WideRuleTable]}

PureReqs ==
    {[op |-> "convertNetstackToBinary", name |-> e.name, table |-> e.table] :
        e \in EncodedTables}
    \cup {[op |-> "encodeVerdict", verdict |-> v] : v \in Verdicts}
    \cup {[op |-> "decodeVerdict", val |-> v] : v \in VerdictVals}
    \cup {[op |-> "parseTarget", t |-> t, optVal |-> TargetRegion(t)] : t \in TargetDescs}

\* Entries of 2^16 bytes and more: one matcher block of WrapMatchSize
\* bytes and a target, so that the next offset the entry declares, a
\* 16-bit field, is 0 (standard target) or 24 (error target).
WideKinds == {Kind(t, 1, "mwrap") : t \in GoodTargets}

WideDescs ==
    UNION {UNION {{Base(n, p, k, p - 1), Base(n, p, k, p % n)} : p \in 1 .. n, k \in WideKinds} :
           n \in 1 .. MaxEntries}

InitPure ==
    /\ tables = <<>>
    /\ installed = FALSE
    /\ \/ req \in PureReqs
       \/ \E p \in {<<d, FullBlob(d)>> : d \in AcceptedDescs} : PrefixReq(p)
       \/ \E d \in WideDescs : req = [op |-> "SetEntries", d |-> d, optVal |-> Blob(d)]
    /\ call = Idle
    /\ rd = NoProc
    /\ wr = NoProc

\* A verdict encoded, and the encoding decoded again (not after a panic).
EncodeVerdictDone(e) ==
    call' = [op |-> "encodeVerdict", err |-> IF e.panic THEN "PANIC" ELSE "",
             verdict |-> req.verdict, val |-> e.val,
             back |-> IF e.panic THEN [verdict |-> "Invalid", err |-> "PANIC"]
                      ELSE translateToStandardVerdict(e.val)]

DoEncodeVerdict ==
    /\ req.op = "encodeVerdict"
    /\ EncodeVerdictDone(translateFromStandardVerdict(req.verdict))
    /\ req' = NoReq
    /\ UNCHANGED <<tables, installed, rd, wr>>

DecodeVerdictDone(r) ==
    call' = [op |-> "decodeVerdict", err |-> r.err, val |-> req.val, verdict |-> r.verdict]

DoDecodeVerdict ==
    /\ req.op = "decodeVerdict"
    /\ DecodeVerdictDone(translateToStandardVerdict(req.val))
    /\ req' = NoReq
    /\ UNCHANGED <<tables, installed, rd, wr>>

ParseTargetDone(r) ==
    call' = [op |-> "parseTarget", err |-> r.err, t |-> req.t, target |-> r.target]

DoParseTarget ==
    /\ req.op = "parseTarget"
    /\ ParseTargetDone(parseTarget(req.optVal, 0, req.optVal.len))
    /\ req' = NoReq
    /\ UNCHANGED <<tables, installed, rd, wr>>

ConvertDone(c) ==
    call' = [op |-> "convertNetstackToBinary", err |-> c.err, name |-> req.name,
             table |-> req.table, entries |-> c.entries, meta |-> c.meta]

DoConvertNetstackToBinary ==
    /\ req.op = "convertNetstackToBinary"
    /\ ConvertDone(convertNetstackToBinary(req.name, req.table))
    /\ req' = NoReq
    /\ UNCHANGED <<tables, installed, rd, wr>>

NextPure ==
    \/ DoSetEntries
    \/ DoConvertNetstackToBinary
    \/ DoEncodeVerdict
    \/ DoDecodeVerdict
    \/ DoParseTarget

SpecPure == InitPure /\ [][NextPure]_vars

(***************************************************************************)
(* A query and a replace running at the same time.  rd is the process in   *)
(* GetInfo or GetEntries, wr the one in SetEntries, each a record of where *)
(* it is (pc) and of its locals.  The stack's IPTables() and SetIPTables() *)
(* are single steps: what they return and take is a value.                 *)
(*                                                                         *)
(* rd.allowed is not of the program: it collects the tables a query may    *)
(* see, which are the one in the stack when it starts and the whole table  *)
(* of every replace under way before it ends.                              *)
(***************************************************************************)
ConcDescs ==
    {Plain(1), Plain(2), Base(2, 2, Kind("drop", 1, "none"), 0),
     [Plain(1) EXCEPT !.size = 8], [Plain(1) EXCEPT !.he[Input] = -1],
     [Plain(1) EXCEPT !.name = TablenameNat]}

QueryKinds ==
    {[kind |-> "GetInfo", outLen |-> 0], [kind |-> "GetEntries", outLen |-> 0],
     [kind |-> "GetEntries", outLen |-> U16]}

StoredUnder(tabs, name) == IF name \in DOMAIN tabs THEN {tabs[name]} ELSE {}

\* The table a replace that found r is to store under name, if any.
WholeTable(r, name) == IF r.err = "" /\ r.name = name THEN {r.table} ELSE {}

Replacing(w, name) ==
    IF w.pc \in {"idle", "done"} THEN {} ELSE WholeTable(parseAndValidate(w.optVal), name)

\* SetEntries has parsed and checked optVal (lines 310-438): r is what it
\* found.  The table built has no metadata yet.
replaceBuilt(w, r) ==
    IF r.err # "" THEN [pc |-> "done", optVal |-> w.optVal, err |-> r.err]
    ELSE [pc |-> "ipt", optVal |-> w.optVal, err |-> "", name |-> r.name,
          table |-> [r.table EXCEPT !.metadata = ZeroMetadata],
          meta |-> r.table.metadata, ipt |-> <<>>]

\* SetEntries storing the table before its metadata is set.
replaceStep_StoreBeforeMetadata(w, tabs) ==
    CASE w.pc = "parse" -> [wr |-> replaceBuilt(w, parseAndValidate(w.optVal)), tables |-> tabs]
      [] w.pc = "ipt" -> [wr |-> [w EXCEPT !.pc = "put", !.ipt = tabs], tables |-> tabs]
      [] w.pc = "put" ->
           [wr |-> [w EXCEPT !.pc = "set", !.ipt = storeTable(@, w.name, w.table)],
            tables |-> tabs]
      [] w.pc = "set" -> [wr |-> [w EXCEPT !.pc = "meta"], tables |-> w.ipt]
      [] w.pc = "meta" -> [wr |-> [w EXCEPT !.pc = "done", !.table.metadata = w.meta],
                           tables |-> tabs]

\* One step of SetEntries: the parsing and the checks, then lines 445 (ipt),
\* 446-451 (meta), 452 (put) and 453 (set).
replaceStep(w, tabs) ==
    CASE w.pc = "parse" -> [wr |-> replaceBuilt(w, parseAndValidate(w.optVal)), tables |-> tabs]
      [] w.pc = "ipt" -> [wr |-> [w EXCEPT !.pc = "meta", !.ipt = tabs], tables |-> tabs]
      [] w.pc = "meta" -> [wr |-> [w EXCEPT !.pc = "put", !.table.metadata = w.meta],
                           tables |-> tabs]
      [] w.pc = "put" ->
           [wr |-> [w EXCEPT !.pc = "set", !.ipt = storeTable(@, w.name, w.table)],
            tables |-> tabs]
      [] w.pc = "set" -> [wr |-> [w EXCEPT !.pc = "done"], tables |-> w.ipt]

\* The state once FillDefaultIPTables has run.
InitConc ==
    /\ tables = FillDefaultIPTables
    /\ installed = TRUE
    /\ req = NoReq
    /\ call = Idle
    /\ rd = NoProc
    /\ wr = NoProc

StartQuery ==
    /\ rd.pc = "idle"
    /\ \E q \in QueryKinds, name \in TableNames :
          rd' = [pc |-> "start", kind |-> q.kind, outLen |-> q.outLen, name |-> name,
                 allowed |-> StoredUnder(tables, name) \cup Replacing(wr, name)]
    /\ UNCHANGED <<tables, installed, req, call, wr>>

\* findTable's stack.IPTables() (line 125).
QuerySnapshot ==
    /\ rd.pc = "start"
    /\ rd' = [pc |-> "read", kind |-> rd.kind, outLen |-> rd.outLen, name |-> rd.name,
              allowed |-> rd.allowed, ipt |-> tables]
    /\ UNCHANGED <<tables, installed, req, call, wr>>

QueryDone(r) ==
    rd' = [pc |-> "done", kind |-> rd.kind, outLen |-> rd.outLen, name |-> rd.name,
           allowed |-> rd.allowed, ipt |-> rd.ipt, result |-> r]

\* The rest of GetInfo or GetEntries, on what IPTables() returned.
QueryFinish ==
    /\ rd.pc = "read"
    /\ IF rd.kind = "GetInfo" THEN QueryDone(GetInfo(rd.ipt, rd.name, FALSE))
       ELSE QueryDone(GetEntries(rd.ipt, rd.name, rd.outLen, FALSE))
    /\ UNCHANGED <<tables, installed, req, call, wr>>

QueryReturn ==
    /\ rd.pc = "done"
    /\ rd.result.err # "PANIC"
    /\ rd' = NoProc
    /\ UNCHANGED <<tables, installed, req, call, wr>>

\* A query under way may from now on see the table of this replace.
QuerySeesReplace(optVal) ==
    rd' = IF rd.pc = "idle" THEN rd
          ELSE [rd EXCEPT !.allowed = @ \cup WholeTable(parseAndValidate(optVal), rd.name)]

StartReplace ==
    /\ wr.pc = "idle"
    /\ \E d \in ConcDescs :
          /\ wr' = [pc |-> "parse", optVal |-> Blob(d)]
          /\ QuerySeesReplace(Blob(d))
    /\ UNCHANGED <<tables, installed, req, call>>

ReplaceStepDone(n) ==
    /\ wr' = n.wr
    /\ tables' = n.tables

ReplaceStep ==
    /\ wr.pc \notin {"idle", "done"}
    /\ ReplaceStepDone(replaceStep(wr, tables))
    /\ UNCHANGED <<installed, req, call, rd>>

ReplaceReturn ==
    /\ wr.pc = "done"
    /\ wr' = NoProc
    /\ UNCHANGED <<tables, installed, req, call, rd>>

NextConc ==
    \/ StartQuery
    \/ QuerySnapshot
    \/ QueryFinish
    \/ QueryReturn
    \/ StartReplace
    \/ ReplaceStep
    \/ ReplaceReturn

SpecConc == InitConc /\ [][NextConc]_vars

(***************************************************************************)
(* Properties.                                                             *)
(***************************************************************************)
Range(s) == {s[i] : i \in DOMAIN s}

FilterHooks == {Input, Forward, Output}

\* The offsets the replace header of the blob described by d declares.
DeclaredHookEntry(d, h) == IF d.he[h] = -2 THEN 0 ELSE HookOffset(d.ents, d.he[h])

DeclaredUnderflow(d, h) == IF d.uf[h] = -2 THEN 0 ELSE HookOffset(d.ents, d.uf[h])

\* The last call was a SetEntries that parsed every entry the header counts.
ParsedAllEntries ==
    call.op = "SetEntries" /\ call.why \in {"", "hook unset", "hook unsupported"}

Accepted == call.op = "SetEntries" /\ call.err = ""

\* C1: a SetEntries call that returns an error, at whichever check, leaves
\* the stack's tables (every name, table and metadata) as they were.
C1_RejectedLeavesStore ==
    [][(req.op = "SetEntries" /\ call'.op = "SetEntries" /\ call'.err # "")
          => tables' = tables]_vars

\* A call rejected at the chain check, after an earlier call replaced the
\* default filter table.
C1_Witness ==
    /\ call.op = "SetEntries" /\ call.err = "EINVAL" /\ call.why = "hook unsupported"
    /\ TablenameFilter \in DOMAIN tables
    /\ tables[TablenameFilter] # FillDefaultIPTables[TablenameFilter]

\* C2 (as claimed): GetEntries never reaches the metadata-mismatch panic.
C2_NoMetadataPanic == ~(call.op = "GetEntries" /\ call.err = "PANIC")

\* C5: when every entry was parsed and some hook of the filter table
\* declares an entry or underflow offset that is the offset of no rule, the
\* call is rejected (hook unset); in an accepted table every such hook's
\* entry and underflow index is the index of a rule recorded at the
\* declared offset.
C5_HookUnset ==
    ParsedAllEntries =>
      /\ (\E h \in FilterHooks :
             \/ DeclaredHookEntry(call.d, h) \notin Range(call.offsets)
             \/ DeclaredUnderflow(call.d, h) \notin Range(call.offsets))
         => (call.err = "EINVAL" /\ call.why = "hook unset")
      /\ call.err = "" =>
           \A h \in FilterHooks :
              LET t == tables[TablenameFilter] IN
              /\ t.BuiltinChains[h] \in 0 .. (Len(call.offsets) - 1)
              /\ t.Underflows[h] \in 0 .. (Len(call.offsets) - 1)
              /\ call.offsets[t.BuiltinChains[h] + 1] = DeclaredHookEntry(call.d, h)
              /\ call.offsets[t.Underflows[h] + 1] = DeclaredUnderflow(call.d, h)

\* Two entries parsed; only OUTPUT's underflow offset is the offset of no
\* rule, and the call is rejected.
C5_Witness ==
    /\ ParsedAllEntries /\ call.why = "hook unset" /\ Len(call.offsets) = 2
    /\ DeclaredUnderflow(call.d, Output) \notin Range(call.offsets)
    /\ \A h \in FilterHooks : DeclaredHookEntry(call.d, h) \in Range(call.offsets)
    /\ \A h \in FilterHooks \ {Output} : DeclaredUnderflow(call.d, h) \in Range(call.offsets)

\* C8: a blob in which FORWARD or OUTPUT starts at a rule whose target is
\* not an accept is never accepted; the filter table the stack holds has an
\* accept rule, at a valid index, at the start of each chain but INPUT; the
\* chain check never indexes outside the rules.
C8_OtherChainsAccept ==
    /\ Accepted =>
         \A h \in FilterHooks \ {Input} :
            /\ call.d.he[h] \in 0 .. (Len(call.d.ents) - 1)
            /\ call.d.ents[call.d.he[h] + 1].tgt = "accept"
    /\ call.op = "SetEntries" => call.err # "PANIC"
    /\ TablenameFilter \in DOMAIN tables =>
         LET t == tables[TablenameFilter] IN
         \A h \in DOMAIN t.BuiltinChains \ {Input} :
            /\ t.BuiltinChains[h] \in 0 .. (Len(t.Rules) - 1)
            /\ t.Rules[t.BuiltinChains[h] + 1].Target = "UnconditionalAccept"

\* A blob rejected because FORWARD starts at a drop rule, and nothing else
\* is wrong with it.
C8_Witness ==
    /\ call.op = "SetEntries" /\ call.err = "EINVAL" /\ call.why = "hook unsupported"
    /\ call.d.ents[call.d.he[Forward] + 1].tgt = "drop"

\* The bytes of one encoded entry: the ipt_entry header, then its elements.
EntryWire(e) ==
    Cat(Struct(SizeOfIPTEntry,
               PutU16(OffIPProtocol, e.Protocol)
               @@ PutU16(OffEntryTargetOffset, e.TargetOffset)
               @@ PutU16(OffEntryNextOffset, e.NextOffset)),
        e.Elems)

RECURSIVE EntrytableWire(_, _)
EntrytableWire(entrytable, i) ==
    IF i > Len(entrytable) THEN NoBytes
    ELSE Cat(EntryWire(entrytable[i]), EntrytableWire(entrytable, i + 1))

\* The option value that replaces a table by what the encoder returned: the
\* replace header built from the encoder's metadata, then the entries.
ReplaceOf(c) ==
    Cat(ReplaceBytes(c.entries.Name, c.meta.NumEntries, c.meta.Size,
                     c.meta.HookEntry, c.meta.Underflow),
        EntrytableWire(c.entries.Entrytable, 1))

SameTable(r, t) ==
    /\ r.err = ""
    /\ r.table.Rules = t.Rules
    /\ r.table.BuiltinChains = t.BuiltinChains
    /\ r.table.Underflows = t.Underflows

RoundTrips(t) ==
    SameTable(parseAndValidate(ReplaceOf(convertNetstackToBinary(TablenameFilter, t))), t)

\* C3: when SetEntries has accepted a blob, the filter table it stored is
\* encoded without error, and decoding the encoded entries under a replace
\* header built from the encoder's metadata is accepted and gives the same
\* rules, chain entries and underflows.
C3_RoundTrip ==
    Accepted =>
      /\ convertNetstackToBinary(TablenameFilter, tables[TablenameFilter]).err = ""
      /\ RoundTrips(tables[TablenameFilter])

\* The decoder's table of an accepted blob whose second rule, a drop rule
\* with a matcher, is where INPUT starts.
C3_Witness ==
    /\ Accepted
    /\ Len(tables[TablenameFilter].Rules) = 2
    /\ tables[TablenameFilter].Rules[2].Target = "UnconditionalDrop"
    /\ tables[TablenameFilter].Rules[2].Matchers # <<>>
    /\ tables[TablenameFilter].BuiltinChains[Input] = 1

\* The sum of the next offsets of the first i entries.
RECURSIVE SumNextOffset(_, _)
SumNextOffset(entrytable, i) ==
    IF i = 0 THEN 0 ELSE SumNextOffset(entrytable, i - 1) + entrytable[i].NextOffset

\* The bytes of the blocks of matchers[lo .. hi].
RECURSIVE MatcherBytesOf(_, _, _)
MatcherBytesOf(matchers, lo, hi) ==
    IF lo > hi THEN 0
    ELSE IF lo = hi THEN marshalMatcher(matchers[lo]).len
    ELSE MatcherBytesOf(matchers, lo, (lo + hi) \div 2)
         + MatcherBytesOf(matchers, ((lo + hi) \div 2) + 1, hi)

TargetBlockSize(target) ==
    IF target = "Error" THEN SizeOfXTErrorTarget ELSE SizeOfXTStandardTarget

EncodedAsClaimed(t, c) ==
    /\ c.err = ""
    /\ c.meta.NumEntries = Len(t.Rules)
    /\ Len(c.entries.Entrytable) = Len(t.Rules)
    /\ c.meta.Size = SumNextOffset(c.entries.Entrytable, Len(t.Rules))
    /\ \A h \in DOMAIN t.BuiltinChains :
          t.BuiltinChains[h] \in 0 .. (Len(t.Rules) - 1) =>
             c.meta.HookEntry[h] = SumNextOffset(c.entries.Entrytable, t.BuiltinChains[h])
    /\ \A h \in DOMAIN t.Underflows :
          t.Underflows[h] \in 0 .. (Len(t.Rules) - 1) =>
             c.meta.Underflow[h] = SumNextOffset(c.entries.Entrytable, t.Underflows[h])
    /\ \A i \in 1 .. Len(t.Rules) :
          LET e == c.entries.Entrytable[i] IN
          /\ e.TargetOffset = SizeOfIPTEntry + MatcherBytesOf(t.Rules[i].Matchers, 1,
                                                              Len(t.Rules[i].Matchers))
          /\ e.NextOffset = e.TargetOffset + TargetBlockSize(t.Rules[i].Target)
          /\ e.Elems.len = e.NextOffset - SizeOfIPTEntry

\* C9: for every table encoded, the encoder's metadata counts the rules,
\* its size is the sum of the entries' next offsets, the offset of a hook
\* whose entry (underflow) rule has index i is the sum of the next offsets
\* of the i entries before it, and each entry's target offset is the header
\* size plus its matchers' bytes, its next offset that plus the size of its
\* target block.
C9_EncoderMetadata ==
    call.op = "convertNetstackToBinary" =>
       EncodedAsClaimed(call.table, [err |-> call.err, entries |-> call.entries,
                                     meta |-> call.meta])

\* The bytes SetEntries needs of the blob described by d: the replace
\* header and the entries its header counts.
NeededLen(d) ==
    SizeOfIPTReplace + EntriesBytes(SubSeq(d.ents, 1, Len(d.ents) + d.num), 1).len

\* The last call was SetEntries on a blob that is accepted, cut short.
PrefixCall ==
    /\ call.op = "SetEntries"
    /\ call.d.cut >= 0
    /\ [call.d EXCEPT !.cut = -1] \in AcceptedDescs

\* C4 as stated: every strict prefix of an accepted blob is rejected.
C4_EveryPrefixRejected == PrefixCall => call.err = "EINVAL"

\* C4: a prefix of an accepted blob that is shorter than the replace header
\* and the entries the header counts is rejected with the invalid-argument
\* error, no slice of the decoder is out of range (the model's "PANIC") and
\* the stack's tables are not written; a prefix that only lacks bytes after
\* the last counted entry is accepted.
C4_ShortPrefixRejected ==
    PrefixCall =>
       IF call.d.cut < NeededLen(call.d)
       THEN call.err = "EINVAL" /\ tables = <<>>
       ELSE call.err = ""

\* A blob of two entries cut inside the target of the second, which has a
\* matcher: the first entry was parsed, the second rejected.
C4_Witness ==
    /\ PrefixCall
    /\ call.d.cut < NeededLen(call.d)
    /\ call.err = "EINVAL" /\ call.why = "target size"
    /\ Len(call.offsets) = 1
    /\ call.d.ents[2].nm = 1

\* C7: decoding the encoding of Accept and of Drop gives the verdict back;
\* the decoder returns Accept for -NF_ACCEPT-1 and Drop for -NF_DROP-1 only,
\* the "unsupported" error for -NF_QUEUE-1 and NF_RETURN (the encodings of
\* Queue and Return), and the "unknown" error for every other int32; it
\* never panics.
C7_VerdictCodec ==
    /\ (call.op = "encodeVerdict" /\ call.verdict \in {"Accept", "Drop"}) =>
          call.err = "" /\ call.back = [verdict |-> call.verdict, err |-> ""]
    /\ (call.op = "encodeVerdict" /\ call.verdict \in {"Queue", "Return"}) =>
          /\ call.err = ""
          /\ call.val = (IF call.verdict = "Queue" THEN (-NF_QUEUE) - 1 ELSE NF_RETURN)
          /\ call.back = [verdict |-> "Invalid", err |-> "unsupported"]
    /\ call.op = "decodeVerdict" =>
          CASE call.val = -2 -> call.err = "" /\ call.verdict = "Accept"
            [] call.val = -1 -> call.err = "" /\ call.verdict = "Drop"
            [] call.val \in {-4, -5} -> call.err = "unsupported" /\ call.verdict = "Invalid"
            [] OTHER -> call.err = "unknown" /\ call.verdict = "Invalid"

\* The wire value of Queue has been decoded.
C7_Witness ==
    call.op = "decodeVerdict" /\ call.val = (-NF_QUEUE) - 1 /\ call.err = "unsupported"

\* What parseTarget is claimed to return for the target region described
\* by t.
ClaimedTarget(t) ==
    IF t.name = <<>> /\ t.n = SizeOfXTStandardTarget /\ t.p.pk = "v" /\ t.p.v = -2
    THEN "UnconditionalAccept"
    ELSE IF t.name = <<>> /\ t.n = SizeOfXTStandardTarget /\ t.p.pk = "v" /\ t.p.v = -1
    THEN "UnconditionalDrop"
    ELSE IF t.name = errorTargetName /\ t.n = SizeOfXTErrorTarget /\ t.p.pk = "s"
            /\ t.p.s = errorTargetName
    THEN "Error"
    ELSE NoTarget

\* C10: parseTarget returns UnconditionalAccept (UnconditionalDrop) for a
\* region of the standard target's size with an empty name and the verdict
\* of Accept (Drop), Error for a region of the error target's size with
\* the name ERROR and the inner name ERROR, and for every other region the
\* error and no target.
C10_ParseTargetCases ==
    call.op = "parseTarget" =>
       /\ call.target = ClaimedTarget(call.t)
       /\ call.err = (IF ClaimedTarget(call.t) = NoTarget THEN "EINVAL" ELSE "")

\* An error target whose inner name is a chain's has been rejected.
C10_Witness ==
    /\ call.op = "parseTarget"
    /\ call.t.name = errorTargetName /\ call.t.n = SizeOfXTErrorTarget
    /\ call.t.p.s = nameChain
    /\ call.err = "EINVAL"

\* What a query q returns when the table it finds is t.
QueryResult(q, t) ==
    IF q.kind = "GetInfo" THEN [err |-> "", info |-> infoOf(t)]
    ELSE entriesOf(q.name, t, q.outLen)

\* C6: a query that ran while a table of its name was being replaced has
\* read from the stack one of the tables it may see, each with the metadata
\* stored with it (the one there when the query started, or the whole table
\* of a replace under way), and what it returns is what that one table
\* gives; it is never a table without its metadata or with another's.
C6_QuerySeesWholePair ==
    /\ rd.pc \in {"read", "done"} => StoredUnder(rd.ipt, rd.name) \subseteq rd.allowed
    /\ rd.pc = "done" =>
          IF rd.allowed = {} THEN rd.result.err = "EINVAL"
          ELSE \E t \in rd.allowed : rd.result = QueryResult(rd, t)

\* A GetEntries that started before the replace stored its table returns
\* the new entries while the replace has not returned yet.
C6_Witness ==
    /\ rd.pc = "done" /\ rd.kind = "GetEntries" /\ rd.result.err = ""
    /\ rd.name = TablenameFilter
    /\ Cardinality(rd.allowed) = 2
    /\ rd.ipt[TablenameFilter] # FillDefaultIPTables[TablenameFilter]
    /\ Len(rd.result.entries.Entrytable) = 2
    /\ wr.pc = "done"

\* The bytes of the entry region consumed before entry i (from 1): the sum
\* of what the entries before it took (initialOptValLen - len(optVal)).
RECURSIVE ConsumedBefore(_, _)
ConsumedBefore(lens, i) == IF i <= 1 THEN 0 ELSE ConsumedBefore(lens, i - 1) + lens[i - 1]

\* The next offset declared by the entry that starts where entry i was read.
NextOffsetRead(optVal, lens, i) ==
    GetU16(optVal, SizeOfIPTReplace + ConsumedBefore(lens, i) + OffEntryNextOffset)

\* The rules recorded at the offset a hook of the table declares.
RulesAt(offsets, declared) == {i \in DOMAIN offsets : offsets[i] = declared}

\* C11: in an accepted SetEntries call every entry took as many bytes as the
\* next offset it declares, so the offset recorded for a rule is the number
\* of bytes of the entry region consumed before its entry, the offsets
\* recorded increase strictly, and the entry offset each hook of the table
\* declares is the offset of at most one rule.
C11_OffsetIsBytesConsumed ==
    (call.op = "SetEntries" /\ call.err = "") =>
       /\ \A i \in DOMAIN call.lens :
             /\ call.lens[i] = NextOffsetRead(call.optVal, call.lens, i)
             /\ call.offsets[i] = ConsumedBefore(call.lens, i)
       /\ \A i, j \in DOMAIN call.offsets : i < j => call.offsets[i] < call.offsets[j]
       /\ \A h \in FilterHooks :
             Cardinality(RulesAt(call.offsets,
                                 GetU32(call.optVal, OffReplaceHookEntry + 4 * h))) <= 1

====
